---- MODULE Spec2Model ----
(***************************************************************************)
(* Project Aegis: the drift scorer, the healing engine and the batch       *)
(* analyzer of src/src/engine.py, as operators over tables, and the calls  *)
(* made on one AegisEngine as actions.                                     *)
(*                                                                         *)
(* Numbers.  A numeric cell holds its value in halves (the cell 6 is the   *)
(* number 3.0), so that the midpoint of two whole numbers, which is what   *)
(* a median of an even count is, is exact.  Scores and percentages are     *)
(* exact fractions [num, den] in lowest terms; NaN is the fraction 0/0 and *)
(* every comparison with it is false, as in IEEE arithmetic.               *)
(***************************************************************************)
EXTENDS Integers, Sequences, FiniteSets, TLC

\* ------------------------------------------------------------------ bounds
\* Largest number of columns of a generated table.
MaxCols == 2
\* heal_data is run on the source, then on its own output, MaxPasses times in all.
MaxPasses == 2
\* The outlier value of a "spike" column is MaxVal; the other cells hold 1.
MaxVal == 9
\* The test sample of create_test_data.py holds 50 * SampleScale rows.
SampleScale == 1
\* Row counts of the generated tables: empty, tiny, and the two sizes around the
\* 5% and 50% thresholds (1/20 is exactly 5%, 1/21 is inside the (0,5) band).
RowCounts == {0, 1, 2, 20, 21}

\* ------------------------------------------------------------------- cells
\* A CSV field: empty (read back as NaN), a number, or any other text.
Null == [kind |-> "null", v |-> 0]
Num(n) == [kind |-> "num", v |-> 2 * n]
Txt(i) == [kind |-> "str", v |-> i]

\* pandas isnull() on one cell.
isnull(c) == c.kind = "null"

\* ---------------------------------------------------------------- fractions
RECURSIVE GCD(_, _)
GCD(a, b) == IF b = 0 THEN a ELSE GCD(b, a % b)

NaN == [num |-> 0, den |-> 0]
\* n / d as Python and pandas floats give it on these inputs (d > 0).
Frac(n, d) == LET g == GCD(IF n < 0 THEN -n ELSE n, d)
              IN  [num |-> n \div g, den |-> d \div g]
\* x > k, x >= k, x < k, x <= k for a fraction x and an integer k; false on NaN.
FGt(x, k) == x.den > 0 /\ x.num > k * x.den
FGe(x, k) == x.den > 0 /\ x.num >= k * x.den
FLt(x, k) == x.den > 0 /\ x.num < k * x.den
FLe(x, k) == x.den > 0 /\ x.num <= k * x.den

\* ------------------------------------------------------------------ tables
\* A DataFrame is [rows, cols], cols a sequence of [name, numeric, cells], every
\* cells of length rows.  A CSV file is the same without the dtypes.

\* Series.sum()
SeqSum(s) ==
    LET RECURSIVE Go(_, _)
        Go(lo, hi) == IF lo > hi THEN 0
                      ELSE IF lo = hi THEN s[lo]
                      ELSE Go(lo, (lo + hi) \div 2) + Go((lo + hi) \div 2 + 1, hi)
    IN  Go(1, Len(s))

\* series[mask].index.tolist(): the positions where the boolean mask is true,
\* in order.
Positions(mask) ==
    LET RECURSIVE Go(_)
        Go(i) == IF i = 0 THEN <<>>
                 ELSE IF mask[i] THEN Append(Go(i - 1), i) ELSE Go(i - 1)
    IN  Go(Len(mask))

\* df[col].isnull().sum()
NullCount(cells) == Cardinality({i \in 1..Len(cells) : isnull(cells[i])})

\* The dtype read_csv infers: numeric when there is a row and every field that
\* is not empty parses as a number (an all-empty column is float64).
InferNumeric(cells) ==
    Len(cells) > 0 /\ \A i \in 1..Len(cells) : cells[i].kind \in {"null", "num"}


\* pd.read_csv raises EmptyDataError on a file with no columns to parse.
CanRead(file) == Len(file.cols) > 0

\* pd.read_csv (engine.py 58-60, 189-191) and read_csv_auto(...).df() (54, 184):
\* the same rows and names, each column with the dtype its fields give it.
read_csv(file) ==
    [rows |-> file.rows,
     cols |-> [j \in 1..Len(file.cols) |->
                  [name    |-> file.cols[j].name,
                   numeric |-> InferNumeric(file.cols[j].cells),
                   cells   |-> file.cols[j].cells]]]

\* Mutant: index=False is left out, so the row index is written as a column.
to_csv_WithIndex(df) ==
    [rows |-> df.rows,
     cols |-> <<[name |-> "Unnamed: 0", cells |-> [i \in 1..df.rows |-> Num(i - 1)]]>>
              \o [j \in 1..Len(df.cols) |->
                    [name |-> df.cols[j].name, cells |-> df.cols[j].cells]]]
\* df.to_csv(output_path, index=False): names and fields, NaN as the empty
\* field; the dtypes are not written.
to_csv(df) ==
    [rows |-> df.rows,
     cols |-> [j \in 1..Len(df.cols) |->
                  [name |-> df.cols[j].name, cells |-> df.cols[j].cells]]]

\* A batch handed to scan_batch is a DataFrame already: no file is read.
FrameOf(file) == read_csv(file)

\* ----------------------------------------------------------- drift scorer
\* (missing_counts > 0).sum()
columns_with_issues(df) ==
    Cardinality({j \in 1..Len(df.cols) : NullCount(df.cols[j].cells) > 0})

\* Mutant: the missing cells, not the columns that have one, are counted.
DriftScore_TotalMissing(df) ==
    IF Len(df.cols) > 0
    THEN Frac(SeqSum([j \in 1..Len(df.cols) |-> NullCount(df.cols[j].cells)]),
              Len(df.cols))
    ELSE Frac(0, 1)
\* columns_with_issues / len(df.columns) if len(df.columns) > 0 else 0.0
DriftScore(df) ==
    IF Len(df.cols) > 0 THEN Frac(columns_with_issues(df), Len(df.cols))
    ELSE Frac(0, 1)

\* Mutant: the ratio is not multiplied by 100.
NullPercentage_Ratio(df, j) ==
    IF df.rows = 0 THEN NaN
    ELSE Frac(NullCount(df.cols[j].cells), df.rows)
\* (missing_counts / len(df)) * 100 for one column: NaN for 0 / 0.
NullPercentage(df, j) ==
    IF df.rows = 0 THEN NaN
    ELSE Frac(100 * NullCount(df.cols[j].cells), df.rows)

\* analyze_missing_values listing every column, the full ones too.
analyze_missing_values_All(df) ==
    LET n == Len(df.cols)
        with_missing == Positions([j \in 1..n |-> TRUE])
    IN  [total_missing |->
             SeqSum([j \in 1..n |-> NullCount(df.cols[j].cells)]),
         columns_with_missing |->
             [k \in 1..Len(with_missing) |->
                 [column     |-> df.cols[with_missing[k]].name,
                  count      |-> NullCount(df.cols[with_missing[k]].cells),
                  percentage |-> NullPercentage(df, with_missing[k])]]]

\* _analyze_missing_values(df)
analyze_missing_values(df) ==
    LET n == Len(df.cols)
        with_missing == Positions([j \in 1..n |-> NullCount(df.cols[j].cells) > 0])
    IN  [total_missing |->
             SeqSum([j \in 1..n |-> NullCount(df.cols[j].cells)]),
         columns_with_missing |->
             [k \in 1..Len(with_missing) |->
                 [column     |-> df.cols[with_missing[k]].name,
                  count      |-> NullCount(df.cols[with_missing[k]].cells),
                  percentage |-> NullPercentage(df, with_missing[k])]]]

NoResult == [status |-> "none"]
\* The except clause printed the error and re-raised it: nothing is returned.
Raised == [status |-> "raised"]

\* scan_for_drift swallowing a load error the way scan_batch does: a default
\* result with drift score 0 instead of the exception.
scan_for_drift_Default(file) ==
    IF ~CanRead(file)
    THEN [status        |-> "ok",
          drift_score   |-> Frac(0, 1),
          missing_stats |-> analyze_missing_values([rows |-> 0, cols |-> <<>>]),
          num_rows      |-> 0,
          num_columns   |-> 0,
          columns       |-> <<>>]
    ELSE LET current_df == read_csv(file)
         IN  [status        |-> "ok",
              drift_score   |-> DriftScore(current_df),
              missing_stats |-> analyze_missing_values(current_df),
              num_rows      |-> current_df.rows,
              num_columns   |-> Len(current_df.cols),
              columns       |-> [j \in 1..Len(current_df.cols) |->
                                    current_df.cols[j].name]]

\* In local mode the file is read through USING SAMPLE 100000 ROWS, which
\* returns every row of a file of at most 100000 rows, as all files here are.
scan_for_drift(file) ==
    IF ~CanRead(file) THEN Raised
    ELSE LET current_df == read_csv(file)
         IN  [status        |-> "ok",
              drift_score   |-> DriftScore(current_df),
              missing_stats |-> analyze_missing_values(current_df),
              num_rows      |-> current_df.rows,
              num_columns   |-> Len(current_df.cols),
              columns       |-> [j \in 1..Len(current_df.cols) |->
                                    current_df.cols[j].name]]

\* --------------------------------------------------------- healing engine
\* Mutant: >= 50 drops the column that is exactly half empty.
ToDrop_AtLeast(p) == FGe(p, 50)
\* null_percentages > 50
ToDrop(p) == FGt(p, 50)
\* Mutant: <= 5 imputes the column at exactly 5%.
ToImpute_UpTo(p) == FGt(p, 0) /\ FLe(p, 5)
\* (null_percentages > 0) & (null_percentages < 5)
ToImpute(p) == FGt(p, 0) /\ FLt(p, 5)
\* Mutants: < 50 leaves the half-empty column unflagged; without the upper
\* limit the dropped columns are flagged too.
ToFlag_Below(p) == FGe(p, 5) /\ FLt(p, 50)
ToFlag_NoCeiling(p) == FGe(p, 5)
\* (null_percentages >= 5) & (null_percentages <= 50)
ToFlag(p) == FGe(p, 5) /\ FLe(p, 50)

\* The non-null values of a column, as the set of their row numbers.
NonNull(cells) == {i \in 1..Len(cells) : ~isnull(cells[i])}

\* The k-th smallest non-null value of the column (k from 1).
KthSmallest(cells, k) ==
    LET at == NonNull(cells)
        below(v) == Cardinality({i \in at : cells[i].v < v})
        upto(v)  == Cardinality({i \in at : cells[i].v <= v})
    IN  CHOOSE v \in {cells[i].v : i \in at} : below(v) < k /\ upto(v) >= k

\* Mutant: the upper middle value for an even count, not the midpoint.
median_UpperMiddle(cells) ==
    LET n == Cardinality(NonNull(cells))
    IN  IF n = 0 THEN Null
        ELSE [kind |-> "num", v |-> KthSmallest(cells, n \div 2 + 1)]
\* df[col].median(): NaN cells are skipped; the middle value, or the midpoint
\* of the two middle values; NaN when no value is left.  A scalar in the form
\* of a cell.
median(cells) ==
    LET n == Cardinality(NonNull(cells))
    IN  IF n = 0 THEN Null
        ELSE IF n % 2 = 1
        THEN [kind |-> "num", v |-> KthSmallest(cells, (n + 1) \div 2)]
        ELSE [kind |-> "num",
              v |-> (KthSmallest(cells, n \div 2)
                         + KthSmallest(cells, n \div 2 + 1)) \div 2]

\* Mutant: df[col] = value, which overwrites the cells that held a value.
fillna_Assign(cells, value) ==
    [i \in 1..Len(cells) |-> value]
\* df[col].fillna(value): filling with NaN leaves the NaN cells as they are.
fillna(cells, value) ==
    [i \in 1..Len(cells) |-> IF isnull(cells[i]) THEN value ELSE cells[i]]

\* Mutant: the dtype test is left out.
is_numeric_dtype_Any(col) == TRUE
\* pd.api.types.is_numeric_dtype(df[col])
is_numeric_dtype(col) == col.numeric

\* The part of heal_data between the load and the save: the cleaned frame and
\* the three lists of the healing log.
Heal(df) ==
    LET n == Len(df.cols)
        pct(j) == NullPercentage(df, j)
        columns_to_drop == Positions([j \in 1..n |-> ToDrop(pct(j))])
        remaining == Positions([j \in 1..n |-> ~ToDrop(pct(j))])
        InFrame(j) == \E k \in 1..Len(remaining) : remaining[k] = j
        columns_to_impute == Positions([j \in 1..n |-> ToImpute(pct(j))])
        imputed == Positions([k \in 1..Len(columns_to_impute) |->
                                 /\ InFrame(columns_to_impute[k])
                                 /\ is_numeric_dtype(df.cols[columns_to_impute[k]])])
        Filled(j) == \E k \in 1..Len(imputed) : columns_to_impute[imputed[k]] = j
        columns_to_flag == Positions([j \in 1..n |-> ToFlag(pct(j))])
    IN  [df |-> [rows |-> df.rows,
                 cols |-> [k \in 1..Len(remaining) |->
                             LET c == df.cols[remaining[k]]
                             IN  IF Filled(remaining[k])
                                 THEN [c EXCEPT !.cells = fillna(c.cells, median(c.cells))]
                                 ELSE c]],
         columns_dropped |-> [k \in 1..Len(columns_to_drop) |->
                                 df.cols[columns_to_drop[k]].name],
         columns_imputed |-> [k \in 1..Len(imputed) |->
                                 LET c == df.cols[columns_to_impute[imputed[k]]]
                                 IN  [column |-> c.name, method |-> "median",
                                      value  |-> median(c.cells)]],
         columns_flagged |-> [k \in 1..Len(columns_to_flag) |->
                                 [column          |-> df.cols[columns_to_flag[k]].name,
                                  null_percentage |-> pct(columns_to_flag[k])]]]

\* heal_data(filepath): the healing log it returns and the file it writes, or
\* the exception it re-raises (then nothing was written).
heal_data(file) ==
    IF ~CanRead(file) THEN [status |-> "raised"]
    ELSE LET df == read_csv(file)
             h  == Heal(df)
         IN  [status |-> "ok",
              log    |-> [columns_dropped |-> h.columns_dropped,
                          columns_imputed |-> h.columns_imputed,
                          columns_flagged |-> h.columns_flagged,
                          rows_processed  |-> df.rows],
              output |-> to_csv(h.df)]


\* --------------------------------------------------------- batch analyzer
\* ColumnAnomalies with the threshold at 2 standard deviations.
ColumnAnomalies_Over2(rows, c) ==
    LET at == NonNull(c.cells)
        n  == Cardinality(at)
        S  == SeqSum([i \in 1..Len(c.cells) |->
                         IF i \in at THEN c.cells[i].v ELSE 0])
        dev(i) == (n * c.cells[i].v - S) * (n * c.cells[i].v - S)
        Q  == SeqSum([i \in 1..Len(c.cells) |-> IF i \in at THEN dev(i) ELSE 0])
    IN  IF rows > 1 /\ n >= 2 /\ Q > 0
        THEN Cardinality({i \in at : dev(i) * (n - 1) > 4 * Q})
        ELSE 0

\* The cells of column c that lie more than 3 standard deviations from the
\* mean: 0 unless the frame has more than one row and std > 0.  With n non-null
\* values of sum S and Q the sum of (n*x - S)^2, std (ddof = 1) is
\* sqrt(Q / (n*n*(n-1))), NaN for n < 2, and |x - mean| / std > 3 is
\* (n*x - S)^2 * (n-1) > 9 * Q.
ColumnAnomalies(rows, c) ==
    LET at == NonNull(c.cells)
        n  == Cardinality(at)
        S  == SeqSum([i \in 1..Len(c.cells) |->
                         IF i \in at THEN c.cells[i].v ELSE 0])
        dev(i) == (n * c.cells[i].v - S) * (n * c.cells[i].v - S)
        Q  == SeqSum([i \in 1..Len(c.cells) |-> IF i \in at THEN dev(i) ELSE 0])
    IN  IF rows > 1 /\ n >= 2 /\ Q > 0
        THEN Cardinality({i \in at : dev(i) * (n - 1) > 9 * Q})
        ELSE 0

\* anomaly_count: the sum over batch_df.select_dtypes(include=[np.number]).
AnomalyCount(df) ==
    SeqSum([j \in 1..Len(df.cols) |->
               IF df.cols[j].numeric THEN ColumnAnomalies(df.rows, df.cols[j])
               ELSE 0])

\* HealthScore with the anomaly rate at full weight (the factor 0.5 left out).
HealthScore_FullWeight(drift, anomaly_count, len) ==
    LET d   == len * drift.den
        raw == d - len * drift.num - anomaly_count * drift.den
    IN  IF raw < 0 THEN Frac(0, 1)
        ELSE IF raw > d THEN Frac(1, 1)
        ELSE Frac(raw, d)

\* max(0.0, min(1.0, 1.0 - (drift_score + (anomaly_count / len) * 0.5)))
HealthScore(drift, anomaly_count, len) ==
    LET d   == 2 * len * drift.den
        raw == d - 2 * len * drift.num - anomaly_count * drift.den
    IN  IF raw < 0 THEN Frac(0, 1)
        ELSE IF raw > d THEN Frac(1, 1)
        ELSE Frac(raw, d)

\* x > p/q and x < p/q for a fraction x and the decimal literal p/q.
FGtDec(x, p, q) == x.den > 0 /\ x.num * q > p * x.den
FLtDec(x, p, q) == x.den > 0 /\ x.num * q < p * x.den

\* has_drift_event or drift_score > 0.3 or health_score < 0.7
Alert(has_drift_event, drift, health) ==
    has_drift_event \/ FGtDec(drift, 3, 10) \/ FLtDec(health, 7, 10)

\* scan_batch without its except clause: the error of a batch without rows
\* reaches the caller.
scan_batch_Reraise(batch_df, has_drift) ==
    IF batch_df.rows = 0 THEN Raised
    ELSE LET drift  == DriftScore(batch_df)
             count  == AnomalyCount(batch_df)
             health == HealthScore(drift, count, batch_df.rows)
         IN  [status |-> "ok", drift_score |-> drift, anomaly_count |-> count,
              health_score |-> health, has_drift_event |-> has_drift,
              batch_size |-> batch_df.rows,
              missing_values |->
                  SeqSum([j \in 1..Len(batch_df.cols) |->
                             NullCount(batch_df.cols[j].cells)]),
              alert |-> Alert(has_drift, drift, health),
              error |-> ""]

\* The BatchResult of scan_batch.  anomaly_count / len(batch_df) divides by
\* zero on a batch without rows (anomaly_count is still the int 0 then); the
\* except clause turns that into the neutral result with an error field.
scan_batch(batch_df, has_drift) ==
    IF batch_df.rows = 0
    THEN [status |-> "ok", drift_score |-> Frac(0, 1), anomaly_count |-> 0,
          health_score |-> Frac(1, 1), has_drift_event |-> FALSE,
          batch_size |-> 0, missing_values |-> 0, alert |-> FALSE,
          error |-> "division by zero"]
    ELSE LET drift  == DriftScore(batch_df)
             count  == AnomalyCount(batch_df)
             health == HealthScore(drift, count, batch_df.rows)
         IN  [status |-> "ok", drift_score |-> drift, anomaly_count |-> count,
              health_score |-> health, has_drift_event |-> has_drift,
              batch_size |-> batch_df.rows,
              missing_values |->
                  SeqSum([j \in 1..Len(batch_df.cols) |->
                             NullCount(batch_df.cols[j].cells)]),
              alert |-> Alert(has_drift, drift, health),
              error |-> ""]

\* ------------------------------------------------------------------ inputs
\* The null counts tried for a column of R rows: none, one, two, and the counts
\* around one half (which are all of them for R <= 2).
NullCounts(R) ==
    {k \in 0..R : k \in {0, 1, 2} \/ (2 * k >= R - 1 /\ 2 * k <= R + 2)}

\* A column of R fields, k of them empty.  "ramp": the empty fields first, then
\* the row numbers as values.  "spike": the empty fields last, the first value
\* MaxVal and the others 1.  "cycle": the empty fields first, then 1, 2, 3
\* over and over.  "text": the empty fields first, then labels.  "flat": the
\* empty fields first, then MaxVal in every field.
Cells(R, k, shape) ==
    [i \in 1..R |->
        CASE shape = "ramp"  -> IF i <= k THEN Null ELSE Num(i)
          [] shape = "spike" -> IF i > R - k THEN Null
                                ELSE IF i = 1 THEN Num(MaxVal) ELSE Num(1)
          [] shape = "cycle" -> IF i <= k THEN Null ELSE Num(1 + (i % 3))
          [] shape = "text"  -> IF i <= k THEN Null ELSE Txt(1 + (i % 2))
          [] shape = "flat"  -> IF i <= k THEN Null ELSE Num(MaxVal)]

Shapes == {"ramp", "spike", "text"}
ColumnNames == <<"c1", "c2", "c3", "c4", "c5", "c6">>

ColumnCells(R) == {Cells(R, k, shape) : k \in NullCounts(R), shape \in Shapes}

\* Every file of R rows and n columns over ColumnCells(R), the columns named
\* by position.
FilesOf(R, n) ==
    {[rows |-> R,
      cols |-> [j \in 1..n |-> [name |-> ColumnNames[j], cells |-> f[j]]]] :
        f \in [1..n -> ColumnCells(R)]}

GeneratedFiles == UNION {FilesOf(R, n) : R \in RowCounts, n \in 0..MaxCols}

\* data/raw/test_sample.csv of create_test_data.py with the rates it aims at
\* met exactly: value_A 60% empty, value_B 2%, score 30%, id and category full.
SampleRows == 50 * SampleScale
TestSample ==
    [rows |-> SampleRows,
     cols |-> << [name |-> "id",       cells |-> Cells(SampleRows, 0, "cycle")],
                 [name |-> "value_A",  cells |-> Cells(SampleRows, 30 * SampleScale, "cycle")],
                 [name |-> "value_B",  cells |-> Cells(SampleRows, SampleScale, "spike")],
                 [name |-> "category", cells |-> Cells(SampleRows, 0, "text")],
                 [name |-> "score",    cells |-> Cells(SampleRows, 15 * SampleScale, "cycle")] >>]

\* Batches with a column of one repeated value (zero variance) beside a column
\* with an outlier, of every row count, the repeated column full or one short.
FlatFiles ==
    {[rows |-> R,
      cols |-> << [name |-> "c1", cells |-> Cells(R, k, "flat")],
                  [name |-> "c2", cells |-> Cells(R, 0, "spike")] >>] :
        R \in RowCounts, k \in {0, 1}}

Files == GeneratedFiles \cup {TestSample} \cup FlatFiles

\* ------------------------------------------------------------------- state
VARIABLES
    source,        \* the CSV file (or batch) the engine is given
    attrs_has_drift,  \* attrs['has_drift'] of the batch last given to scan_batch
    drift_result,  \* what scan_for_drift(source) returned, if it was called
    batch_result,  \* what scan_batch(source) returned, if it was called
    heals,         \* the heal_data passes so far: the first on source, each
                   \* later one on the file the pass before it wrote
    operation_mode,    \* st.session_state.operation_mode: "file" or "live"
    live_feed_active,  \* st.session_state.live_feed_active
    stream_history,    \* st.session_state.stream_history
    batch_count,       \* st.session_state.batch_count
    iteration,         \* passes of the streaming loop done by this script run
    crashed,           \* the script run ended in an uncaught exception
    starts,            \* how often Start was pressed (history variable)
    disk,              \* the file system heal_data reads from and writes to
    heal_args,         \* the arguments of the heal_data call on that disk
    heal_log,          \* what that call returned, if it was made
    alert_logs,        \* st.session_state.alert_logs
    healing_result,    \* st.session_state.healing_result
    report,            \* the executive report last generated for download
    presses            \* how often Scan and Auto-fix were pressed (history variable)

engineVars == <<source, attrs_has_drift, drift_result, batch_result, heals>>
streamVars == <<operation_mode, live_feed_active, stream_history, batch_count,
                iteration, crashed, starts>>
diskVars == <<disk, heal_args, heal_log>>
dashVars == <<alert_logs, healing_result, report, presses>>
vars == <<engineVars, streamVars, diskVars, dashVars>>

\* The engine before any call.
EngineInit ==
    /\ attrs_has_drift = FALSE
    /\ drift_result = NoResult
    /\ batch_result = NoResult
    /\ heals = <<>>

\* The dashboard session as first loaded: the radio on its first option, the
\* live feed's three session keys at their initial values.
StreamInit ==
    /\ operation_mode = "file"
    /\ live_feed_active = FALSE
    /\ stream_history = <<>>
    /\ batch_count = 0
    /\ iteration = 0
    /\ crashed = FALSE
    /\ starts = 0

\* No heal_data call on a disk is under way: nothing on the disk, no arguments.
DiskIdle ==
    /\ disk = [dirs |-> {}, files |-> {}]
    /\ heal_args = [status |-> "none"]
    /\ heal_log = [status |-> "none"]

\* The file analysis page before any button was pressed: no alert logged, no
\* healing result, no report.
DashIdle ==
    /\ alert_logs = <<>>
    /\ healing_result = NoResult
    /\ report = NoResult
    /\ presses = [scan |-> 0, fix |-> 0]

Init ==
    /\ source \in Files
    /\ EngineInit
    /\ StreamInit
    /\ DiskIdle
    /\ DashIdle

\* engine.scan_for_drift(source)
ScanForDrift ==
    /\ drift_result = NoResult
    /\ drift_result' = scan_for_drift(source)
    /\ UNCHANGED <<source, attrs_has_drift, batch_result, heals>>
    /\ UNCHANGED <<streamVars, diskVars, dashVars>>

\* engine.scan_batch(batch_df), the producer having set attrs['has_drift'].
ScanBatch ==
    /\ batch_result = NoResult
    /\ \E flag \in BOOLEAN :
           /\ attrs_has_drift' = flag
           /\ batch_result' = scan_batch(FrameOf(source), flag)
    /\ UNCHANGED <<source, drift_result, heals>>
    /\ UNCHANGED <<streamVars, diskVars, dashVars>>

\* The file the next heal_data pass reads.
NextInput == IF heals = <<>> THEN source ELSE heals[Len(heals)].output

\* engine.heal_data(path): on the source, or on the cleaned file of the pass
\* before.  A pass that raised wrote nothing, so no pass follows it.
HealData ==
    /\ Len(heals) < MaxPasses
    /\ heals # <<>> => heals[Len(heals)].status = "ok"
    /\ heals' = Append(heals, heal_data(NextInput))
    /\ UNCHANGED <<source, attrs_has_drift, drift_result, batch_result>>
    /\ UNCHANGED <<streamVars, diskVars, dashVars>>

Next == ScanForDrift \/ ScanBatch \/ HealData

Spec == Init /\ [][Next]_vars


\* ------------------------------------------------------------- live feed
\* The dashboard script (app.py) runs top to bottom on every interaction with
\* a widget; an interaction while a script run is under way ends that run at
\* its next st.* call and starts a new one.  st.session_state outlives the
\* runs.  The script is inside the streaming loop exactly when the mode is
\* "live", live_feed_active is true and the run has not ended in an error.

\* len(st.session_state.stream_history) > 50
HistoryCapacity == 50
\* for _ in range(20)
LoopLength == 20
\* if st.session_state.batch_count >= 20
AutoStopAt == 20
\* generate_live_batch(batch_size = 50)
BatchSize == 50

\* batch_count is followed up to MaxTicks; only the first MaxVaried batches
\* after a Start are drawn freely from LiveBatches, the later ones are the
\* plain batch; Start is pressed at most MaxStarts times.
MaxTicks == 52
MaxVaried == 1
MaxStarts == 2

\* The batches generate_live_batch() hands to the loop, cut down to the three
\* columns the analysis tells apart: amount (always present), fee (None in
\* some rows) and status (text).  A plain batch; a batch with fees missing
\* and one large amount; a batch with the drift flag set, its second half of
\* amounts scaled up.
LiveFrame(amount, fee) ==
    FrameOf([rows |-> BatchSize,
             cols |-> << [name |-> "amount", cells |-> amount],
                         [name |-> "fee", cells |-> fee],
                         [name |-> "status",
                          cells |-> Cells(BatchSize, 0, "text")] >>])
PlainBatch ==
    [has_drift |-> FALSE,
     df |-> LiveFrame(Cells(BatchSize, 0, "cycle"), Cells(BatchSize, 0, "cycle"))]
GapBatch ==
    [has_drift |-> FALSE,
     df |-> LiveFrame(Cells(BatchSize, 0, "spike"), Cells(BatchSize, 2, "cycle"))]
DriftBatch ==
    [has_drift |-> TRUE,
     df |-> LiveFrame([i \in 1..BatchSize |->
                          IF i - 1 > BatchSize \div 2 THEN Num(6) ELSE Num(1)],
                      Cells(BatchSize, 0, "cycle"))]
LiveBatches == {PlainBatch, GapBatch, DriftBatch}

\* generate_live_batch() for the batch after n batches of the run.
generate_live_batch(n) == IF n < MaxVaried THEN LiveBatches ELSE {PlainBatch}

\* The dict appended to stream_history (its timestamp left out).
HistoryEntry(batch_num, analysis) ==
    [batch_num     |-> batch_num,
     health_score  |-> analysis.health_score,
     drift_score   |-> analysis.drift_score,
     anomaly_count |-> analysis.anomaly_count]

\* KeepLast never dropping an entry.
KeepLast_KeepAll(history) == history

\* KeepLast dropping the newest entry instead of the oldest.
KeepLast_DropNewest(history) ==
    IF Len(history) > HistoryCapacity
    THEN SubSeq(history, 1, Len(history) - 1)
    ELSE history

\* if len(stream_history) > 50: stream_history.pop(0)
KeepLast(history) ==
    IF Len(history) > HistoryCapacity THEN Tail(history) ELSE history

\* The sum of the fractions of a sequence.
RECURSIVE FracSum(_)
FracSum(s) ==
    IF Len(s) = 0 THEN Frac(0, 1)
    ELSE IF Len(s) = 1 THEN Frac(s[1].num, s[1].den)
    ELSE LET half  == Len(s) \div 2
             front == FracSum(SubSeq(s, 1, half))
             rest  == FracSum(SubSeq(s, half + 1, Len(s)))
         IN  Frac(front.num * rest.den + rest.num * front.den,
                  front.den * rest.den)

\* The stream summary shown when the feed is stopped and has a history:
\* len(summary_df), summary_df['health_score'].mean() and
\* summary_df['anomaly_count'].sum().
StreamSummary(history) ==
    LET total == FracSum([k \in 1..Len(history) |-> history[k].health_score])
    IN  [total_batches    |-> Len(history),
         avg_health_score |-> Frac(total.num, total.den * Len(history)),
         total_anomalies  |-> SeqSum([k \in 1..Len(history) |->
                                         history[k].anomaly_count])]

\* The script run is inside the streaming loop.
InLoop == operation_mode = "live" /\ live_feed_active /\ ~crashed

\* The sidebar radio is set to "Live Feed": the script runs again and, if the
\* feed is active, enters the streaming loop at its first pass.
SelectLiveFeed ==
    /\ operation_mode = "file"
    /\ operation_mode' = "live"
    /\ iteration' = 0
    /\ crashed' = FALSE
    /\ UNCHANGED <<live_feed_active, stream_history, batch_count, starts>>
    /\ UNCHANGED <<engineVars, diskVars, dashVars>>

\* The sidebar radio is set to "File Analysis": a run inside the loop ends at
\* its next st.* call, the new run does not enter the live feed branch.
SelectFileAnalysis ==
    /\ operation_mode = "live"
    /\ operation_mode' = "file"
    /\ iteration' = 0
    /\ crashed' = FALSE
    /\ UNCHANGED <<live_feed_active, stream_history, batch_count, starts>>
    /\ UNCHANGED <<engineVars, diskVars, dashVars>>

\* StartStream leaving the history of the run before in place.
StartStream_KeepHistory ==
    /\ operation_mode = "live"
    /\ ~live_feed_active
    /\ starts < MaxStarts
    /\ live_feed_active' = TRUE
    /\ batch_count' = 0
    /\ iteration' = 0
    /\ crashed' = FALSE
    /\ starts' = starts + 1
    /\ UNCHANGED <<operation_mode, stream_history>>
    /\ UNCHANGED <<engineVars, diskVars, dashVars>>

\* Start Stream is pressed (the button is disabled while the feed is active):
\* the three keys are reset and st.rerun() enters the loop.
StartStream ==
    /\ operation_mode = "live"
    /\ ~live_feed_active
    /\ starts < MaxStarts
    /\ live_feed_active' = TRUE
    /\ stream_history' = <<>>
    /\ batch_count' = 0
    /\ iteration' = 0
    /\ crashed' = FALSE
    /\ starts' = starts + 1
    /\ UNCHANGED operation_mode
    /\ UNCHANGED <<engineVars, diskVars, dashVars>>

\* StopStream also emptying the history.
StopStream_Clear ==
    /\ operation_mode = "live"
    /\ live_feed_active
    /\ live_feed_active' = FALSE
    /\ stream_history' = <<>>
    /\ iteration' = 0
    /\ crashed' = FALSE
    /\ UNCHANGED <<operation_mode, batch_count, starts>>
    /\ UNCHANGED <<engineVars, diskVars, dashVars>>

\* Stop Stream is pressed (the button is enabled while the feed is active):
\* the run inside the loop ends at its next st.* call, the new run clears the
\* flag and st.rerun() shows the summary.
StopStream ==
    /\ operation_mode = "live"
    /\ live_feed_active
    /\ live_feed_active' = FALSE
    /\ iteration' = 0
    /\ crashed' = FALSE
    /\ UNCHANGED <<operation_mode, stream_history, batch_count, starts>>
    /\ UNCHANGED <<engineVars, diskVars, dashVars>>

\* Tick reaching an st.* call between the counter and the history: the
\* batch is counted and the pass can end before its entry is appended.
Tick_CountOnly ==
    /\ InLoop
    /\ iteration < LoopLength
    /\ batch_count < MaxTicks
    /\ batch_count' = batch_count + 1
    /\ iteration' = iteration + 1
    /\ UNCHANGED <<stream_history, crashed>>
    /\ UNCHANGED <<operation_mode, live_feed_active, starts>>
    /\ UNCHANGED <<engineVars, diskVars, dashVars>>

\* One pass of the streaming loop up to its first st.* call: a batch is
\* generated and analysed, batch_count is incremented, the entry appended and
\* the history cut to its capacity.  An exception out of scan_batch would end
\* the script run.
Tick ==
    /\ InLoop
    /\ iteration < LoopLength
    /\ batch_count < MaxTicks
    /\ \E batch \in generate_live_batch(batch_count) :
           LET analysis == scan_batch(batch.df, batch.has_drift)
           IN  IF analysis.status = "raised"
               THEN /\ crashed' = TRUE
                    /\ UNCHANGED <<stream_history, batch_count, iteration>>
               ELSE /\ batch_count' = batch_count + 1
                    /\ stream_history' =
                           KeepLast(Append(stream_history,
                                           HistoryEntry(batch_count + 1, analysis)))
                    /\ iteration' = iteration + 1
                    /\ UNCHANGED crashed
    /\ UNCHANGED <<operation_mode, live_feed_active, starts>>
    /\ UNCHANGED <<engineVars, diskVars, dashVars>>

\* The loop has made its 20 passes: if batch_count >= 20 the flag is cleared
\* and st.rerun() shows the summary.
AutoStop ==
    /\ InLoop
    /\ iteration = LoopLength
    /\ IF batch_count >= AutoStopAt
       THEN live_feed_active' = FALSE /\ iteration' = 0
       ELSE UNCHANGED <<live_feed_active, iteration>>
    /\ UNCHANGED <<operation_mode, stream_history, batch_count, crashed, starts>>
    /\ UNCHANGED <<engineVars, diskVars, dashVars>>

\* The live feed of a fresh session; the engine is not called from outside
\* the loop.
StreamStart ==
    /\ source = TestSample
    /\ EngineInit
    /\ StreamInit
    /\ DiskIdle
    /\ DashIdle

StreamNext ==
    \/ SelectLiveFeed
    \/ SelectFileAnalysis
    \/ StartStream
    \/ StopStream
    \/ Tick
    \/ AutoStop

StreamSpec == StreamStart /\ [][StreamNext]_vars


\* ------------------------------------------------------------ output path
\* A path is the sequence of the pieces of its string: names, the separator
\* "/" and the extension ".csv"; no piece but ".csv" contains ".csv".  The
\* empty sequence is the empty string.
Sep == "/"
Pieces(p) == 1..Len(p)

\* The place of the last separator of p, 0 if it has none.
LastSep(p) ==
    IF \E i \in Pieces(p) : p[i] = Sep
    THEN CHOOSE i \in Pieces(p) :
             p[i] = Sep /\ \A k \in Pieces(p) : p[k] = Sep => k <= i
    ELSE 0

\* os.path.dirname(p): '' for a bare file name, '/' directly under the root.
dirname(p) ==
    IF LastSep(p) = 0 THEN <<>>
    ELSE IF LastSep(p) = 1 THEN <<Sep>>
    ELSE SubSeq(p, 1, LastSep(p) - 1)

\* filepath.replace('.csv', '_cleaned.csv'): every occurrence is replaced.
RECURSIVE replace_csv(_)
replace_csv(p) ==
    IF p = <<>> THEN <<>>
    ELSE (IF Head(p) = ".csv" THEN <<"_cleaned", ".csv">> ELSE <<Head(p)>>)
             \o replace_csv(Tail(p))

\* 'data/raw/cleaned_data.csv'
FallbackPath == <<"data", Sep, "raw", Sep, "cleaned_data", ".csv">>

\* The disk is [dirs, files]: the directories that exist besides the working
\* directory and the root, and the files as [path, data].
IsDir(fs, d) == d = <<>> \/ d = <<Sep>> \/ d \in fs.dirs
IsFile(fs, p) == \E f \in fs.files : f.path = p
DataAt(fs, p) == (CHOOSE f \in fs.files : f.path = p).data

\* The directory d and the directories above it.
Ancestors(d) ==
    {d} \cup {SubSeq(d, 1, i - 1) : i \in {k \in Pieces(d) : k > 1 /\ d[k] = Sep}}

\* os.makedirs(d, exist_ok=True): FileNotFoundError for '', FileExistsError or
\* NotADirectoryError where a file is in the way; otherwise d exists afterwards
\* with the directories above it.
makedirs(fs, d) ==
    IF d = <<>> THEN [raised |-> TRUE, disk |-> fs]
    ELSE IF IsDir(fs, d) THEN [raised |-> FALSE, disk |-> fs]
    ELSE IF \E a \in Ancestors(d) : IsFile(fs, a) THEN [raised |-> TRUE, disk |-> fs]
    ELSE [raised |-> FALSE,
          disk |-> [fs EXCEPT !.dirs = (@ \cup Ancestors(d)) \ {<<>>, <<Sep>>}]]

\* df.to_csv(p, index=False), data being the CSV text: IsADirectoryError for a
\* directory or a path that ends in the separator; otherwise p holds data.
write_csv(fs, p, data) ==
    IF p = <<>> \/ p[Len(p)] = Sep \/ IsDir(fs, p) \/ ~IsDir(fs, dirname(p))
    THEN [raised |-> TRUE, disk |-> fs]
    ELSE [raised |-> FALSE,
          disk |-> [fs EXCEPT !.files =
                       {f \in @ : f.path # p} \cup {[path |-> p, data |-> data]}]]

\* The output path heal_data settles on (engine.py 234-238).
OutputPath(filepath, output_path) ==
    IF output_path.given THEN output_path.path
    ELSE IF filepath.kind = "path" THEN replace_csv(filepath.path)
    ELSE FallbackPath

\* heal_data(filepath, output_path) on the disk fs: the load, the healing
\* (heal_data above, which raises on a file it cannot parse), then makedirs and
\* to_csv.  Returns what the caller gets and the disk afterwards.
heal_data_at(fs, filepath, output_path) ==
    IF filepath.kind = "path" /\ ~IsFile(fs, filepath.path)
    THEN [status |-> "raised", disk |-> fs]
    ELSE LET data   == IF filepath.kind = "path" THEN DataAt(fs, filepath.path)
                       ELSE filepath.data
             healed == heal_data(data)
             out    == OutputPath(filepath, output_path)
             made   == makedirs(fs, dirname(out))
             saved  == write_csv(made.disk, out, healed.output)
         IN  IF healed.status = "raised" THEN [status |-> "raised", disk |-> fs]
             ELSE IF made.raised THEN [status |-> "raised", disk |-> made.disk]
             ELSE IF saved.raised THEN [status |-> "raised", disk |-> saved.disk]
             ELSE [status |-> "ok",
                   log |-> [columns_dropped |-> healed.log.columns_dropped,
                            columns_imputed |-> healed.log.columns_imputed,
                            columns_flagged |-> healed.log.columns_flagged,
                            rows_processed  |-> healed.log.rows_processed,
                            output_path     |-> out],
                   disk |-> saved.disk]

\* The source paths tried: in a directory, a bare file name, an extension in
\* capitals, a directory whose name ends in .csv, and the absolute path of a
\* temporary file as run_health_check makes it.
SourcePaths ==
    { <<"data", Sep, "raw", Sep, "test", ".csv">>,
      <<"test", ".csv">>,
      <<"data", Sep, "raw", Sep, "test", ".CSV">>,
      <<"exports", ".csv", Sep, "test", ".csv">>,
      <<Sep, "tmp", Sep, "tmpfile", ".csv">> }

\* The output_path arguments tried: none, a file in a directory, a bare file
\* name, and a directory given with its trailing separator.
NoOutputPath == [given |-> FALSE, path |-> <<>>]
OutputArgs ==
    {NoOutputPath} \cup
    {[given |-> TRUE, path |-> p] :
        p \in { <<"out", Sep, "clean", ".csv">>, <<"clean", ".csv">>, <<"out", Sep>> }}

\* The CSV files tried as sources: two rows and one column of every kind, and
\* the file with no columns to parse.
DiskData == FilesOf(2, 1) \cup FilesOf(2, 0)

\* A heal_data call about to be made: on a path whose file exists or is
\* missing, or on an uploaded buffer; the directory of a source path exists,
\* the directory "out" may.
PathStart ==
    /\ source = TestSample
    /\ EngineInit
    /\ StreamInit
    /\ DashIdle
    /\ heal_log = [status |-> "none"]
    /\ \E out \in OutputArgs, out_exists \in BOOLEAN :
           LET extra == IF out_exists THEN {<<"out">>} ELSE {}
           IN  \/ \E p \in SourcePaths, data \in DiskData, present \in BOOLEAN :
                      /\ heal_args = [filepath |-> [kind |-> "path", path |-> p],
                                      output_path |-> out]
                      /\ disk = [dirs  |-> (Ancestors(dirname(p)) \cup extra)
                                               \ {<<>>, <<Sep>>},
                                 files |-> IF present
                                           THEN {[path |-> p, data |-> data]}
                                           ELSE {}]
               \/ \E data \in DiskData :
                      /\ heal_args = [filepath |-> [kind |-> "buffer", data |-> data],
                                      output_path |-> out]
                      /\ disk = [dirs |-> extra, files |-> {}]

\* engine.heal_data(filepath, output_path)
HealAt ==
    /\ heal_log = [status |-> "none"]
    /\ LET r == heal_data_at(disk, heal_args.filepath, heal_args.output_path)
       IN  /\ heal_log' = IF r.status = "ok"
                          THEN [status |-> "ok", log |-> r.log]
                          ELSE Raised
           /\ disk' = r.disk
    /\ UNCHANGED heal_args
    /\ UNCHANGED <<engineVars, streamVars, dashVars>>

\* The end of run_health_check: os.unlink(temp_file), and os.unlink of the
\* output path if it exists.
Cleanup ==
    /\ heal_log.status = "ok"
    /\ heal_args.filepath.kind = "path"
    /\ IsFile(disk, heal_args.filepath.path)
    /\ disk' = [disk EXCEPT !.files =
                   {f \in @ : f.path \notin {heal_args.filepath.path,
                                             heal_log.log.output_path}}]
    /\ UNCHANGED <<heal_args, heal_log>>
    /\ UNCHANGED <<engineVars, streamVars, dashVars>>

PathNext == HealAt \/ Cleanup

PathSpec == PathStart /\ [][PathNext]_vars


\* ------------------------------------------------------------ dashboard
\* The file analysis page of app.py: a source is chosen, Scan for Drift stores
\* the scan result in the session, and what is shown under it (the critical
\* alert with the auto-fix button, the AI insight, the report) is computed
\* from the stored result on every run of the script.

\* Each button is followed for MaxPresses presses.
MaxPresses == 2

\* x >= p/q, x not NaN.
FGeDec(x, p, q) == x.den > 0 /\ x.num * q >= p * x.den

\* if result['drift_score'] > 0.3: the PagerDuty toast and the Slack payload
\* appended to alert_logs (app.py 429-463).
ScanAlert(result) == FGtDec(result.drift_score, 3, 10)
AlertPayload(result) ==
    [color       |-> IF FGtDec(result.drift_score, 5, 10) THEN "danger" ELSE "warning",
     severity    |-> IF FGtDec(result.drift_score, 5, 10) THEN "CRITICAL" ELSE "HIGH",
     drift_score |-> result.drift_score]

\* if drift_score > 0.3: the critical banner and the AUTO-FIX DATA button
\* (app.py 540-548).
AutoFixShown(result) == FGtDec(result.drift_score, 3, 10)

\* Severity with the bounds included: a score of exactly 0.3 is HIGH.
Severity_AtLeast(drift_score) ==
    IF FGeDec(drift_score, 5, 10) THEN "CRITICAL"
    ELSE IF FGeDec(drift_score, 3, 10) THEN "HIGH"
    ELSE IF FGeDec(drift_score, 1, 10) THEN "MEDIUM"
    ELSE "LOW"

\* The severity of generate_ai_insight and of the report's Severity Level.
Severity(drift_score) ==
    IF FGtDec(drift_score, 5, 10) THEN "CRITICAL"
    ELSE IF FGtDec(drift_score, 3, 10) THEN "HIGH"
    ELSE IF FGtDec(drift_score, 1, 10) THEN "MEDIUM"
    ELSE "LOW"

\* generate_ai_insight(drift_score, num_rows, num_columns, missing_stats): the
\* missing value rate divides by num_rows * num_columns; the root cause text
\* turns on drift_score > 0.3.
generate_ai_insight(drift_score, num_rows, num_columns, missing_stats) ==
    IF num_rows * num_columns = 0 THEN Raised
    ELSE [status       |-> "ok",
          severity     |-> Severity(drift_score),
          missing_rate |-> Frac(missing_stats.total_missing * 100,
                                num_rows * num_columns),
          root_cause   |-> IF FGtDec(drift_score, 3, 10)
                           THEN "upstream ETL pipeline changes"
                           ELSE "natural data evolution"]

\* generate_executive_report(drift_result, performance_metrics, ai_insight):
\* its classification and severity lines.
generate_executive_report(result, ai_insight) ==
    [status         |-> "ok",
     classification |-> IF FGtDec(result.drift_score, 3, 10)
                        THEN "INCIDENT" ELSE "MONITORING",
     severity       |-> Severity(result.drift_score),
     ai_insight     |-> ai_insight]

\* The AI insight the page computes from the stored result.
InsightOf(result) ==
    generate_ai_insight(result.drift_score, result.num_rows, result.num_columns,
                        result.missing_stats)

\* The sources tried on the page: ten columns of two rows, the first k of
\* them with an empty field, for the scores 0, 0.1, 0.3, 0.4, 0.5 and 0.6 (at
\* and beside each threshold); the same columns without rows; and a file with
\* no columns to parse.
DashColumns == <<"f1", "f2", "f3", "f4", "f5", "f6", "f7", "f8", "f9", "f10">>
DashFile(R, k) ==
    [rows |-> R,
     cols |-> [j \in 1..Len(DashColumns) |->
                  [name  |-> DashColumns[j],
                   cells |-> Cells(R, IF j <= k /\ R > 0 THEN 1 ELSE 0, "ramp")]]]
DashFiles ==
    {DashFile(2, k) : k \in {0, 1, 3, 4, 5, 6}}
        \cup {DashFile(0, 0), [rows |-> 0, cols |-> <<>>]}

\* A session on the file analysis page, a source chosen.
DashStart ==
    /\ source \in DashFiles
    /\ EngineInit
    /\ StreamInit
    /\ DiskIdle
    /\ DashIdle

\* Another file is uploaded or another path typed: the script runs again, the
\* stored results stay.
SelectSource ==
    /\ operation_mode = "file"
    /\ \E f \in DashFiles : f # source /\ source' = f
    /\ UNCHANGED <<attrs_has_drift, drift_result, batch_result, heals>>
    /\ UNCHANGED <<streamVars, diskVars, dashVars>>

\* Scan for Drift is pressed: the result of scan_for_drift is stored, the
\* first rows are read again for the inspector, and a result above 0.3 logs
\* the alert.  An exception is shown as an error and nothing is stored.
PressScan ==
    /\ operation_mode = "file"
    /\ presses.scan < MaxPresses
    /\ presses' = [presses EXCEPT !.scan = @ + 1]
    /\ LET result == scan_for_drift(source)
       IN  IF result.status = "raised"
           THEN UNCHANGED <<drift_result, alert_logs>>
           ELSE /\ drift_result' = result
                /\ alert_logs' = IF ScanAlert(result)
                                 THEN Append(alert_logs, AlertPayload(result))
                                 ELSE alert_logs
    /\ UNCHANGED <<source, attrs_has_drift, batch_result, heals>>
    /\ UNCHANGED <<healing_result, report>>
    /\ UNCHANGED <<streamVars, diskVars>>

\* AUTO-FIX DATA is pressed; the button is there when a result is stored and
\* its drift_score > 0.3.  heal_data runs on the source chosen now; an
\* exception is shown as an error.
PressAutoFix ==
    /\ operation_mode = "file"
    /\ drift_result # NoResult
    /\ AutoFixShown(drift_result)
    /\ presses.fix < MaxPresses
    /\ presses' = [presses EXCEPT !.fix = @ + 1]
    /\ LET healed == heal_data(source)
       IN  healing_result' = IF healed.status = "ok"
                             THEN [status |-> "ok", log |-> healed.log]
                             ELSE healing_result
    /\ UNCHANGED <<alert_logs, report>>
    /\ UNCHANGED engineVars
    /\ UNCHANGED <<streamVars, diskVars>>

\* Generate Executive Report is pressed; the button is inside the AI assistant
\* expander, which is reached when a result is stored and the insight was
\* computed.
PressReport ==
    /\ operation_mode = "file"
    /\ drift_result # NoResult
    /\ InsightOf(drift_result).status = "ok"
    /\ report' = generate_executive_report(drift_result, InsightOf(drift_result))
    /\ report' # report
    /\ UNCHANGED <<alert_logs, healing_result, presses>>
    /\ UNCHANGED engineVars
    /\ UNCHANGED <<streamVars, diskVars>>

DashNext == SelectSource \/ PressScan \/ PressAutoFix \/ PressReport

DashSpec == DashStart /\ [][DashNext]_vars


\* ------------------------------------------------------------------ claims
\* What the claims speak of, stated on the files themselves.
InputOf(p) == IF p = 1 THEN source ELSE heals[p - 1].output
OkPasses == {p \in 1..Len(heals) : heals[p].status = "ok"}
ColumnsOf(f) == 1..Len(f.cols)
Nulls(f, j) == Cardinality({i \in 1..f.rows : f.cols[j].cells[i] = Null})
HasNull(f, j) == \E i \in 1..f.rows : f.cols[j].cells[i] = Null
\* The null percentage of column j is over / at least / under / at most / exactly k.
PctOver(f, j, k) == f.rows > 0 /\ 100 * Nulls(f, j) > k * f.rows
PctAtLeast(f, j, k) == f.rows > 0 /\ 100 * Nulls(f, j) >= k * f.rows
PctUnder(f, j, k) == f.rows > 0 /\ 100 * Nulls(f, j) < k * f.rows
PctAtMost(f, j, k) == f.rows > 0 /\ 100 * Nulls(f, j) <= k * f.rows
PctIs(f, j, k) == f.rows > 0 /\ 100 * Nulls(f, j) = k * f.rows
NumericColumn(f, j) ==
    f.rows > 0 /\ \A i \in 1..f.rows : f.cols[j].cells[i].kind # "str"
\* The names of the columns of f whose entry in the boolean sequence is true,
\* in column order.
RECURSIVE NamesWhere(_, _)
NamesWhere(f, keep) ==
    IF Len(keep) = 0 THEN <<>>
    ELSE LET n == Len(keep)
             front == NamesWhere(f, SubSeq(keep, 1, n - 1))
         IN  IF keep[n] THEN Append(front, f.cols[n].name) ELSE front
Listed(list, name) == \E k \in 1..Len(list) : list[k] = name
ListedColumn(list, name) == \E k \in 1..Len(list) : list[k].column = name
Dropped(p, name) == Listed(heals[p].log.columns_dropped, name)
Imputed(p, name) == ListedColumn(heals[p].log.columns_imputed, name)
Flagged(p, name) == ListedColumn(heals[p].log.columns_flagged, name)
InOutput(p, name) == \E k \in ColumnsOf(heals[p].output) : heals[p].output.cols[k].name = name

\* C1: on a table or batch with at least one column, scan_for_drift and
\* scan_batch (normal path) return drift_score = (columns with a null) /
\* (columns); it lies in [0,1] and is 0 exactly when no column has a null.
DriftScoreIs(score) ==
    LET n == Len(source.cols)
        c == Cardinality({j \in ColumnsOf(source) : HasNull(source, j)})
    IN  /\ score.den > 0
        /\ score.num * n = c * score.den
        /\ 0 <= score.num /\ score.num <= score.den
        /\ (c = 0) <=> (score.num = 0)
C1_DriftScore ==
    Len(source.cols) > 0 =>
        /\ drift_result.status = "ok" => DriftScoreIs(drift_result.drift_score)
        /\ (batch_result.status = "ok" /\ batch_result.error = "")
               => DriftScoreIs(batch_result.drift_score)
C1_Witness ==
    /\ drift_result.status = "ok"
    /\ batch_result.status = "ok" /\ batch_result.error = ""
    /\ Len(source.cols) = 2
    /\ HasNull(source, 1) /\ ~HasNull(source, 2)
    /\ drift_result.drift_score = [num |-> 1, den |-> 2]
    /\ batch_result.drift_score = [num |-> 1, den |-> 2]

\* C2: heal_data drops exactly the columns whose null percentage is strictly
\* greater than 50, before the impute and flag steps; columns_dropped holds
\* their names in original column order, and no other column is missing from
\* the output.
C2_DropsExactlyOver50 ==
    \A p \in OkPasses :
        LET f == InputOf(p)
        IN  /\ heals[p].log.columns_dropped
                  = NamesWhere(f, [j \in ColumnsOf(f) |-> PctOver(f, j, 50)])
            /\ [k \in ColumnsOf(heals[p].output) |-> heals[p].output.cols[k].name]
                  = NamesWhere(f, [j \in ColumnsOf(f) |-> ~PctOver(f, j, 50)])
            /\ \A j \in ColumnsOf(f) :
                   PctOver(f, j, 50) => /\ ~Imputed(p, f.cols[j].name)
                                        /\ ~Flagged(p, f.cols[j].name)
C2_Witness ==
    /\ 1 \in OkPasses
    /\ Len(source.cols) = 2
    /\ PctOver(source, 1, 50) /\ ~PctIs(source, 1, 100)
    /\ PctIs(source, 2, 50)
    /\ heals[1].log.columns_dropped = <<"c1">>
    /\ Len(heals[1].output.cols) = 1

\* C3 as claimed: in heal_data a column with exactly 50% nulls is dropped (it
\* is in columns_dropped and absent from the cleaned table) and not flagged.
C3_Claimed_HalfIsDropped ==
    \A p \in OkPasses : \A j \in ColumnsOf(InputOf(p)) :
        PctIs(InputOf(p), j, 50) =>
            /\ Dropped(p, InputOf(p).cols[j].name)
            /\ ~InOutput(p, InputOf(p).cols[j].name)
            /\ ~Flagged(p, InputOf(p).cols[j].name)
\* C3 as amended: in heal_data a column with exactly 50% nulls is flagged (it
\* is in columns_flagged with null_percentage 50) and not dropped: it is
\* absent from columns_dropped and present in the cleaned table.
C3_HalfIsFlagged ==
    \A p \in OkPasses : \A j \in ColumnsOf(InputOf(p)) :
        PctIs(InputOf(p), j, 50) =>
            /\ ~Dropped(p, InputOf(p).cols[j].name)
            /\ InOutput(p, InputOf(p).cols[j].name)
            /\ \E k \in 1..Len(heals[p].log.columns_flagged) :
                   heals[p].log.columns_flagged[k]
                       = [column |-> InputOf(p).cols[j].name,
                          null_percentage |-> [num |-> 50, den |-> 1]]
C3_Witness ==
    /\ 1 \in OkPasses
    /\ \E j \in ColumnsOf(source) :
           /\ PctIs(source, j, 50) /\ source.rows = 20
           /\ Flagged(1, source.cols[j].name)
           /\ InOutput(1, source.cols[j].name)

\* C4: in heal_data a column with exactly 5% nulls is flagged and not
\* imputed, even when numeric; a column with exactly 0% nulls is in none of
\* the three lists; the flagged columns are exactly those with
\* 5 <= null percentage <= 50.
C4_FlagBand ==
    \A p \in OkPasses :
        LET f == InputOf(p)
        IN  /\ [k \in 1..Len(heals[p].log.columns_flagged) |->
                    heals[p].log.columns_flagged[k].column]
                  = NamesWhere(f, [j \in ColumnsOf(f) |->
                                      PctAtLeast(f, j, 5) /\ PctAtMost(f, j, 50)])
            /\ \A j \in ColumnsOf(f) :
                   /\ PctIs(f, j, 5) => /\ Flagged(p, f.cols[j].name)
                                        /\ ~Imputed(p, f.cols[j].name)
                   /\ PctIs(f, j, 0) => /\ ~Dropped(p, f.cols[j].name)
                                        /\ ~Imputed(p, f.cols[j].name)
                                        /\ ~Flagged(p, f.cols[j].name)
C4_Witness ==
    /\ 1 \in OkPasses
    /\ Len(source.cols) = 2
    /\ PctIs(source, 1, 5) /\ NumericColumn(source, 1)
    /\ PctIs(source, 2, 0)
    /\ Flagged(1, "c1") /\ ~Imputed(1, "c1")
    /\ ~Flagged(1, "c2")


\* How many of the three lists of pass p name the column.
ListsNaming(p, name) ==
    (IF Dropped(p, name) THEN 1 ELSE 0) + (IF Imputed(p, name) THEN 1 ELSE 0)
        + (IF Flagged(p, name) THEN 1 ELSE 0)

\* C5 as claimed: after a heal_data pass every input column with at least one
\* null is in exactly one of columns_dropped, columns_imputed, columns_flagged.
C5_Claimed_NullColumnsCovered ==
    \A p \in OkPasses : \A j \in ColumnsOf(InputOf(p)) :
        HasNull(InputOf(p), j) => ListsNaming(p, InputOf(p).cols[j].name) = 1
\* C5 as amended: after a heal_data pass every input column with at least one
\* null is in exactly one of the three lists, except the non-numeric columns
\* with a null percentage in (0,5), which are in none of them.
C5_NullColumnsCoveredButText ==
    \A p \in OkPasses : \A j \in ColumnsOf(InputOf(p)) :
        LET f == InputOf(p)
        IN  HasNull(f, j) =>
                ListsNaming(p, f.cols[j].name)
                    = IF ~NumericColumn(f, j) /\ PctUnder(f, j, 5) THEN 0 ELSE 1
C5_Witness ==
    /\ 1 \in OkPasses
    /\ Len(source.cols) = 2
    /\ HasNull(source, 1) /\ ~NumericColumn(source, 1) /\ PctUnder(source, 1, 5)
    /\ PctOver(source, 2, 0) /\ PctUnder(source, 2, 5) /\ NumericColumn(source, 2)
    /\ ListsNaming(1, "c1") = 0
    /\ Imputed(1, "c2") /\ ListsNaming(1, "c2") = 1

\* C6: after a heal_data pass every input column is dropped, imputed, flagged
\* or untouched, and only one of these: no column is in two of the three
\* lists (none twice in one list), the lists name input columns only, and a
\* dropped column is neither imputed nor flagged.
NoRepeat(names) ==
    \A a, b \in 1..Len(names) : names[a] = names[b] => a = b
C6_FourClasses ==
    \A p \in OkPasses :
        LET f == InputOf(p)
            log == heals[p].log
            InputNames == {f.cols[j].name : j \in ColumnsOf(f)}
        IN  /\ \A name \in InputNames : ListsNaming(p, name) <= 1
            /\ \A name \in InputNames :
                   Dropped(p, name) => ~Imputed(p, name) /\ ~Flagged(p, name)
            /\ \A k \in 1..Len(log.columns_dropped) : log.columns_dropped[k] \in InputNames
            /\ \A k \in 1..Len(log.columns_imputed) :
                   log.columns_imputed[k].column \in InputNames
            /\ \A k \in 1..Len(log.columns_flagged) :
                   log.columns_flagged[k].column \in InputNames
            /\ NoRepeat(log.columns_dropped)
            /\ NoRepeat([k \in 1..Len(log.columns_imputed) |-> log.columns_imputed[k].column])
            /\ NoRepeat([k \in 1..Len(log.columns_flagged) |-> log.columns_flagged[k].column])
C6_Witness ==
    /\ 1 \in OkPasses
    /\ source = TestSample
    /\ Dropped(1, "value_A") /\ Imputed(1, "value_B") /\ Flagged(1, "score")
    /\ ListsNaming(1, "id") = 0 /\ ListsNaming(1, "category") = 0

\* The value at place r of a column's non-null values in ascending order:
\* the place of a value is one more than the number of values that are
\* smaller, or equal and in an earlier row.
ValueAtPlace(cells, r) ==
    LET at == {i \in 1..Len(cells) : cells[i] # Null}
        place(i) == 1 + Cardinality({j \in at : \/ cells[j].v < cells[i].v
                                                \/ /\ cells[j].v = cells[i].v
                                                   /\ j < i})
    IN  cells[CHOOSE i \in at : place(i) = r].v
\* Twice the median is the sum of the two middle values (the middle one twice).
MiddleSum(cells) ==
    LET n == Cardinality({i \in 1..Len(cells) : cells[i] # Null})
    IN  ValueAtPlace(cells, (n + 1) \div 2) + ValueAtPlace(cells, (n + 2) \div 2)
OutputColumn(p, name) ==
    LET out == heals[p].output
    IN  out.cols[CHOOSE k \in ColumnsOf(out) : out.cols[k].name = name]

\* C7: for every numeric column with 0 < null percentage < 5, heal_data
\* replaces every null with the median of the column's non-null values as they
\* were before, leaves the other cells unchanged, and logs {column, method
\* "median", value that median}; the column then has no null.
C7_MedianImputation ==
    \A p \in OkPasses : \A j \in ColumnsOf(InputOf(p)) :
        LET f == InputOf(p)
            c == f.cols[j]
        IN  (NumericColumn(f, j) /\ PctOver(f, j, 0) /\ PctUnder(f, j, 5)) =>
                /\ InOutput(p, c.name)
                /\ \A i \in 1..f.rows :
                       LET after == OutputColumn(p, c.name).cells[i]
                       IN  /\ after # Null
                           /\ c.cells[i] # Null => after = c.cells[i]
                           /\ c.cells[i] = Null =>
                                  after.kind = "num" /\ 2 * after.v = MiddleSum(c.cells)
                /\ \E k \in 1..Len(heals[p].log.columns_imputed) :
                       LET e == heals[p].log.columns_imputed[k]
                       IN  e.column = c.name /\ e.method = "median"
                           /\ e.value.kind = "num"
                           /\ 2 * e.value.v = MiddleSum(c.cells)
C7_Witness ==
    /\ 1 \in OkPasses
    /\ source.rows = 21
    /\ \E j \in ColumnsOf(source) :
           /\ NumericColumn(source, j) /\ Nulls(source, j) = 1
           /\ source.cols[j].cells[21] = Num(21)
           /\ heals[1].log.columns_imputed[1]
                  = [column |-> source.cols[j].name, method |-> "median",
                     value |-> [kind |-> "num", v |-> 23]]
           /\ OutputColumn(1, source.cols[j].name).cells[1] = [kind |-> "num", v |-> 23]

\* C8: heal_data changes nothing but the dropped columns and the imputed
\* nulls: a non-numeric column with a null percentage in (0,5) is in none of
\* the lists and reaches the output unchanged, and so does every flagged and
\* every null-free column, nulls included, in original column order.
C8_Frame ==
    \A p \in OkPasses :
        LET f == InputOf(p)
            out == heals[p].output
        IN  /\ out.rows = f.rows
            /\ heals[p].log.rows_processed = f.rows
            /\ [k \in ColumnsOf(out) |-> out.cols[k].name]
                   = NamesWhere(f, [j \in ColumnsOf(f) |-> ~Dropped(p, f.cols[j].name)])
            /\ \A j \in ColumnsOf(f) :
                   LET c == f.cols[j]
                   IN  /\ (~Dropped(p, c.name) /\ ~Imputed(p, c.name))
                              => OutputColumn(p, c.name) = c
                       /\ Imputed(p, c.name) =>
                              \A i \in 1..f.rows :
                                  c.cells[i] # Null =>
                                      OutputColumn(p, c.name).cells[i] = c.cells[i]
                       /\ (~NumericColumn(f, j) /\ PctOver(f, j, 0) /\ PctUnder(f, j, 5))
                              => ListsNaming(p, c.name) = 0 /\ OutputColumn(p, c.name) = c
                       /\ (Flagged(p, c.name) \/ ~HasNull(f, j))
                              => OutputColumn(p, c.name) = c
C8_Witness ==
    /\ 1 \in OkPasses
    /\ source.rows = 21 /\ Len(source.cols) = 2
    /\ ~NumericColumn(source, 1) /\ Nulls(source, 1) = 1
    /\ Nulls(source, 2) = 2
    /\ Flagged(1, "c2") /\ ListsNaming(1, "c1") = 0
    /\ heals[1].output = source

\* C9 as claimed: healing is idempotent: heal_data on the cleaned output of
\* heal_data(T) returns empty columns_dropped, columns_imputed and
\* columns_flagged.
C9_Claimed_SecondPassEmpty ==
    \A p \in OkPasses :
        p >= 2 => /\ heals[p].log.columns_dropped = <<>>
                  /\ heals[p].log.columns_imputed = <<>>
                  /\ heals[p].log.columns_flagged = <<>>
\* C9 as amended: heal_data on the cleaned output of heal_data(T) returns
\* empty columns_dropped and columns_imputed and the columns_flagged of the
\* first pass again (the flagged columns keep their nulls), and the table it
\* writes equals the one it read.
C9_SecondPassOnlyFlags ==
    \A p \in OkPasses :
        p >= 2 => /\ heals[p].log.columns_dropped = <<>>
                  /\ heals[p].log.columns_imputed = <<>>
                  /\ heals[p].log.columns_flagged = heals[p - 1].log.columns_flagged
                  /\ heals[p].output = heals[p - 1].output
C9_Witness ==
    /\ 2 \in OkPasses
    /\ source = TestSample
    /\ heals[1].log.columns_dropped = <<"value_A">>
    /\ Len(heals[1].log.columns_imputed) = 1
    /\ heals[2].log.columns_imputed = <<>>
    /\ Len(heals[2].log.columns_flagged) = 1
    /\ heals[2].log.columns_flagged[1].column = "score"

\* C10: one heal_data pass over a table with a column at 60% nulls, a numeric
\* column at 2%, a column at 30% and otherwise null-free columns logs
\* columns_dropped = the 60% column alone, the 2% column in columns_imputed
\* with method "median", the 30% column in columns_flagged, and
\* rows_processed = the row count of the table.
C10_EndToEnd ==
    \A a, b, c \in ColumnsOf(source) :
        ( /\ 1 \in OkPasses
          /\ PctIs(source, a, 60)
          /\ PctIs(source, b, 2) /\ NumericColumn(source, b)
          /\ PctIs(source, c, 30)
          /\ \A j \in ColumnsOf(source) \ {a, b, c} : ~HasNull(source, j) )
        => /\ heals[1].log.columns_dropped = <<source.cols[a].name>>
           /\ \E k \in 1..Len(heals[1].log.columns_imputed) :
                  /\ heals[1].log.columns_imputed[k].column = source.cols[b].name
                  /\ heals[1].log.columns_imputed[k].method = "median"
           /\ Flagged(1, source.cols[c].name)
           /\ heals[1].log.rows_processed = source.rows
C10_Witness ==
    /\ 1 \in OkPasses
    /\ source = TestSample
    /\ PctIs(source, 2, 60) /\ PctIs(source, 3, 2) /\ PctIs(source, 5, 30)
    /\ heals[1].log.columns_dropped = <<"value_A">>
    /\ heals[1].log.rows_processed = SampleRows


\* ---------------------------------------------------------------- C11
\* The batch was analysed on the normal path (no error field in the result).
Analysed == batch_result # NoResult /\ batch_result.error = ""
\* The fraction x lies in [0, 1].
InUnitRange(x) == x.den > 0 /\ 0 <= x.num /\ x.num <= x.den

\* C11: for every non-empty batch analysed without error, health_score is
\* 1.0 - (drift_score + (anomaly_count / batch_size) * 0.5) brought into
\* [0, 1]; and the health_score of every returned result, the error results
\* included, lies in [0, 1].  With t = 2 * size * den(drift) the value before
\* clamping is (t - loss) / t for loss = 2 * size * num(drift) + count *
\* den(drift), which is never above 1.
C11_HealthScore ==
    batch_result # NoResult =>
        /\ InUnitRange(batch_result.health_score)
        /\ (Analysed /\ source.rows > 0) =>
               LET r    == batch_result
                   t    == 2 * source.rows * r.drift_score.den
                   loss == 2 * source.rows * r.drift_score.num
                               + r.anomaly_count * r.drift_score.den
               IN  IF loss >= t THEN r.health_score.num = 0
                   ELSE r.health_score.num * t = r.health_score.den * (t - loss)

\* A batch with an outlier and with nulls in some but not all columns, whose
\* health score lies strictly between 0 and 1.
C11_Witness ==
    /\ Analysed
    /\ batch_result.anomaly_count > 0
    /\ 0 < batch_result.drift_score.num
    /\ batch_result.drift_score.num < batch_result.drift_score.den
    /\ 0 < batch_result.health_score.num
    /\ batch_result.health_score.num < batch_result.health_score.den


\* ---------------------------------------------------------------- C12
\* The alert the claim defines, from the fields of the result: the flag, or
\* drift_score > 0.3, or health_score < 0.7.
AlertOf(r) ==
    \/ r.has_drift_event
    \/ 10 * r.drift_score.num > 3 * r.drift_score.den
    \/ 10 * r.health_score.num < 7 * r.health_score.den

\* C12: for every batch the result of scan_batch has has_drift_event equal to
\* the flag the producer set on the batch, and alert = (has_drift_event or
\* drift_score > 0.3 or health_score < 0.7).  Refuted by a batch without rows
\* whose flag is set: the division by len(batch_df) fails and the except
\* result carries has_drift_event False and alert False.
C12_Claimed_Alert ==
    batch_result # NoResult =>
        /\ batch_result.has_drift_event = attrs_has_drift
        /\ batch_result.alert = AlertOf(batch_result)

\* What does hold: the same on every batch analysed on the normal path.
C12_AlertOnNormalPath == Analysed => C12_Claimed_Alert

\* A batch analysed on the normal path with the flag unset, alerting on its
\* drift score alone.
C12_Witness ==
    /\ Analysed
    /\ ~attrs_has_drift
    /\ 10 * batch_result.drift_score.num > 3 * batch_result.drift_score.den
    /\ batch_result.alert


ValueRows(f, j) == {i \in 1..f.rows : f.cols[j].cells[i] # Null}
ValueSum(f, j) ==
    LET cells == f.cols[j].cells
    IN  SeqSum([i \in 1..f.rows |-> IF cells[i] = Null THEN 0 ELSE cells[i].v])
SquareSum(f, j) ==
    LET cells == f.cols[j].cells
    IN  SeqSum([i \in 1..f.rows |->
                   IF cells[i] = Null THEN 0 ELSE cells[i].v * cells[i].v])
Spread(f, j) ==
    Cardinality(ValueRows(f, j)) * SquareSum(f, j)
        - ValueSum(f, j) * ValueSum(f, j)
\* The standard deviation of column j is a number and it is 0.
ZeroStd(f, j) == Cardinality(ValueRows(f, j)) >= 2 /\ Spread(f, j) = 0
\* The numeric columns the claim excludes.
Excluded(f, j) == f.rows <= 1 \/ ZeroStd(f, j)
\* The cells of column j with |x - mean| / std > 3, the comparison squared
\* and cleared of fractions; none where std is 0 or undefined.
Outliers(f, j) ==
    LET at     == ValueRows(f, j)
        n      == Cardinality(at)
        sum    == ValueSum(f, j)
        spread == Spread(f, j)
        d(i)   == n * f.cols[j].cells[i].v - sum
    IN  IF n >= 2 /\ spread > 0
        THEN Cardinality({i \in at : d(i) * d(i) * (n - 1) > 9 * n * spread})
        ELSE 0

\* C14: a numeric column with standard deviation 0, or with at most one row,
\* counts for nothing in anomaly_count whatever the batch size, and the
\* analysis of such a batch ends without a division error; anomaly_count is
\* the number of cells with |x - mean| / std > 3 in the other numeric columns.
C14_AnomalyCount ==
    (batch_result # NoResult /\ source.rows > 0) =>
        /\ batch_result.error = ""
        /\ batch_result.anomaly_count =
               SeqSum([j \in 1..Len(source.cols) |->
                          IF NumericColumn(source, j) /\ ~Excluded(source, j)
                          THEN Outliers(source, j) ELSE 0])

\* A batch of twenty rows or more with a column of one repeated value and a
\* column with one outlier: the count is the outlier alone.
C14_Witness ==
    /\ Analysed
    /\ source.rows >= 20
    /\ \E j \in ColumnsOf(source) :
           NumericColumn(source, j) /\ ZeroStd(source, j)
    /\ \E j \in ColumnsOf(source) :
           NumericColumn(source, j) /\ Outliers(source, j) = 1
    /\ batch_result.anomaly_count = 1


\* ---------------------------------------------------------------- C20
\* The file cannot be loaded: it has no columns to parse.
Unloadable(f) == Len(f.cols) = 0

\* C20: scan_for_drift and heal_data load their source once, and an error of
\* that load (or of a later step) reaches the caller: the call returns no
\* result and no healing log, and writes no cleaned file; a call on a
\* loadable file returns its result.
C20_ErrorsPropagate ==
    /\ drift_result # NoResult =>
           IF Unloadable(source) THEN drift_result = Raised
           ELSE drift_result.status = "ok"
    /\ \A p \in 1..Len(heals) :
           IF Unloadable(InputOf(p)) THEN heals[p] = [status |-> "raised"]
           ELSE heals[p].status = "ok"

\* Both calls were made on a file without columns and both raised.
C20_Witness ==
    /\ Unloadable(source)
    /\ drift_result = Raised
    /\ heals = <<Raised>>


\* ---------------------------------------------------------------- C15
\* A tick has been processed in this step.
Ticked == batch_count' = batch_count + 1
\* The entry of batch n is in the history h.
Holds(h, n) == \E k \in 1..Len(h) : h[k].batch_num = n

\* C15: stream_history never holds more than 50 entries, and a tick that
\* finds 50 entries removes the oldest and puts its own entry last; a tick
\* that finds fewer only appends.
C15_HistoryBound ==
    /\ [](Len(stream_history) <= 50)
    /\ [][Ticked =>
             LET old == stream_history
                 new == stream_history'
             IN  /\ new[Len(new)].batch_num = batch_count'
                 /\ IF Len(old) = 50
                    THEN /\ Len(new) = 50
                         /\ \A k \in 1..49 : new[k] = old[k + 1]
                    ELSE /\ Len(new) = Len(old) + 1
                         /\ \A k \in 1..Len(old) : new[k] = old[k]]_vars

\* The history is full and its oldest entries have been dropped.
C15_Witness ==
    /\ Len(stream_history) = 50
    /\ batch_count > 50
    /\ stream_history[1].batch_num = batch_count - 49
    /\ stream_history[50].batch_num = batch_count

C17_StartResets ==
    [][(starts' # starts \/ (~live_feed_active /\ live_feed_active')) =>
           /\ live_feed_active'
           /\ stream_history' = <<>>
           /\ batch_count' = 0]_vars

\* The feed has just been started a second time, after a run that processed
\* batches or was stopped at once.
C17_Witness ==
    /\ starts = 2
    /\ live_feed_active
    /\ operation_mode = "live"
    /\ stream_history = <<>>
    /\ batch_count = 0

\* ---------------------------------------------------------------- C18
\* C18: a step that clears the running flag (Stop pressed, or the loop ending
\* by itself) changes neither the history nor batch_count, and while the flag
\* stays clear no step changes them: they are as the last tick left them
\* until the next Start, and so is the summary shown of a history that is
\* not empty.
C18_StopKeepsHistory ==
    [][~live_feed_active' =>
           /\ stream_history' = stream_history
           /\ batch_count' = batch_count
           /\ stream_history' # <<>> =>
                  StreamSummary(stream_history') = StreamSummary(stream_history)]_vars

\* The feed was stopped after three batches, one of them with an outlier; the
\* summary gives 3 batches, 1 anomaly and a mean health score below 1.
C18_Witness ==
    /\ ~live_feed_active
    /\ operation_mode = "live"
    /\ batch_count = 3
    /\ StreamSummary(stream_history).total_batches = 3
    /\ StreamSummary(stream_history).total_anomalies = 1
    /\ StreamSummary(stream_history).avg_health_score.num
           < StreamSummary(stream_history).avg_health_score.den

\* ---------------------------------------------------------------- C19
\* C19: a run that gets no Stop processes exactly 20 batches and then leaves
\* Running by itself with batch_count = 20.  Refuted by a run whose loop is
\* entered again (the mode switched away and back while running): the loop
\* makes 20 more passes and the feed stops itself with batch_count above 20.
C19_Claimed_StopsAtTwenty ==
    [][AutoStop => (~live_feed_active' /\ batch_count = 20)]_vars

\* The feed has stopped by itself with more than 20 batches processed.
C19_Witness ==
    /\ ~live_feed_active
    /\ batch_count > 20
    /\ Len(stream_history) > 20


\* ---------------------------------------------------------------- C21
\* The table has no rows or no columns.
EmptyInput(f) == f.rows = 0 \/ Len(f.cols) = 0
\* The fraction x is the number 0.
IsZero(x) == x.den > 0 /\ x.num = 0

\* C21: on a table without rows or without columns none of the four functions
\* meets a division by zero, not even one it catches: the call ends on its
\* normal path with drift score 0.0 and every percentage it reports 0.0, and
\* the result of scan_batch has no error field.  (A file without columns
\* cannot be loaded at all; the file functions are held to the claim on the
\* files that load.)  Refuted by scan_batch on a batch without rows:
\* anomaly_count / len(batch_df) is 0 / 0 on Python ints, and the except
\* clause returns a result with an error field.
C21_Claimed_NoDivisionError ==
    EmptyInput(source) =>
        /\ batch_result # NoResult =>
               /\ batch_result.error = ""
               /\ IsZero(batch_result.drift_score)
        /\ (drift_result # NoResult /\ ~Unloadable(source)) =>
               /\ drift_result.status = "ok"
               /\ IsZero(drift_result.drift_score)
               /\ \A k \in 1..Len(drift_result.missing_stats.columns_with_missing) :
                      IsZero(drift_result.missing_stats.columns_with_missing[k].percentage)
        /\ (heals # <<>> /\ ~Unloadable(source)) =>
               /\ heals[1].status = "ok"
               /\ \A k \in 1..Len(heals[1].log.columns_flagged) :
                      IsZero(heals[1].log.columns_flagged[k].null_percentage)

\* On a file with columns and no rows the file functions end normally with
\* drift score 0, while scan_batch on the same table reports an error.
C21_Witness ==
    /\ source.rows = 0
    /\ Len(source.cols) > 0
    /\ drift_result # NoResult
    /\ drift_result.status = "ok"
    /\ IsZero(drift_result.drift_score)
    /\ heals # <<>>
    /\ heals[1].status = "ok"
    /\ batch_result # NoResult
    /\ batch_result.error = "division by zero"


\* ---------------------------------------------------------------- C22
\* The column of f with the given name (names are unique within a file).
ColumnNamed(f, name) == CHOOSE j \in ColumnsOf(f) : f.cols[j].name = name

\* stats is the missing-value analysis the claim describes for the file f.
MissingListing(f, stats) ==
    LET listed == stats.columns_with_missing
    IN  /\ [k \in 1..Len(listed) |-> listed[k].column]
               = NamesWhere(f, [j \in ColumnsOf(f) |-> HasNull(f, j)])
        /\ \A k \in 1..Len(listed) :
               LET j == ColumnNamed(f, listed[k].column)
               IN  /\ listed[k].count = Nulls(f, j)
                   /\ listed[k].percentage.den > 0
                   /\ listed[k].percentage.num * f.rows
                          = listed[k].percentage.den * 100 * Nulls(f, j)
        /\ stats.total_missing = SeqSum([k \in 1..Len(listed) |-> listed[k].count])

\* C22: the analysis scan_for_drift returns lists exactly the columns with a
\* null, in column order, each with its null count and with count / rows *
\* 100 as percentage; total_missing is the sum of the listed counts; and the
\* call leaves the table it was given as it was.
C22_MissingAnalysis ==
    [][(drift_result = NoResult /\ drift_result' # NoResult
            /\ drift_result'.status = "ok") =>
           /\ MissingListing(source, drift_result'.missing_stats)
           /\ source' = source]_vars

\* The analysis of a file of five columns, three of them with nulls and two
\* full ones among them.
C22_Witness ==
    /\ drift_result # NoResult
    /\ drift_result.status = "ok"
    /\ Len(source.cols) = 5
    /\ Len(drift_result.missing_stats.columns_with_missing) = 3
    /\ drift_result.missing_stats.total_missing > 3


\* ---------------------------------------------------------------- C23
\* This step is the heal_data call on the disk.
HealStep == heal_log = [status |-> "none"] /\ heal_log' # [status |-> "none"]
\* The source of the call can be read and parsed: a buffer or an existing file
\* holding a CSV with at least one column.
SourceData ==
    IF heal_args.filepath.kind = "buffer" THEN heal_args.filepath.data
    ELSE DataAt(disk, heal_args.filepath.path)
ReadableSource ==
    /\ heal_args.filepath.kind = "path" => IsFile(disk, heal_args.filepath.path)
    /\ Len(SourceData.cols) > 0
\* p ends in the extension .csv; p with that extension replaced by _cleaned.csv.
EndsInCsv(p) == Len(p) > 0 /\ p[Len(p)] = ".csv"
CleanedName(p) == SubSeq(p, 1, Len(p) - 1) \o <<"_cleaned", ".csv">>
\* The file at path p on the disk fs holds the cleaned table of data.
HoldsCleaned(fs, p, data) ==
    \E f \in fs.files : f.path = p /\ f.data = heal_data(data).output

\* C23: on every readable, well-formed CSV source heal_data succeeds and the
\* cleaned table is written to the output_path given; or, none given, beside a
\* source path under its name with .csv replaced by _cleaned.csv; or, for a
\* buffer, to data/raw/cleaned_data.csv; and the log names that place.
\* Refuted by a source given as a bare file name ("test.csv"):
\* os.path.dirname of the output path is '' and os.makedirs('') raises.
C23_Claimed_OutputPath ==
    [][(HealStep /\ ReadableSource) =>
           /\ heal_log'.status = "ok"
           /\ HoldsCleaned(disk', heal_log'.log.output_path, SourceData)
           /\ heal_args.output_path.given =>
                  heal_log'.log.output_path = heal_args.output_path.path
           /\ (~heal_args.output_path.given /\ heal_args.filepath.kind = "buffer") =>
                  heal_log'.log.output_path
                      = <<"data", "/", "raw", "/", "cleaned_data", ".csv">>
           /\ (~heal_args.output_path.given /\ heal_args.filepath.kind = "path"
                   /\ EndsInCsv(heal_args.filepath.path)) =>
                  heal_log'.log.output_path = CleanedName(heal_args.filepath.path)]_vars

\* heal_data on data/raw/test.csv with no output_path wrote
\* data/raw/test_cleaned.csv and left the source in place.
C23_Witness ==
    /\ heal_log.status = "ok"
    /\ ~heal_args.output_path.given
    /\ heal_args.filepath.kind = "path"
    /\ heal_args.filepath.path = <<"data", "/", "raw", "/", "test", ".csv">>
    /\ heal_log.log.output_path = <<"data", "/", "raw", "/", "test", "_cleaned", ".csv">>
    /\ IsFile(disk, heal_log.log.output_path)
    /\ IsFile(disk, heal_args.filepath.path)


\* ---------------------------------------------------------------- C29
\* C29: heal_data never overwrites its own input: called on a source path with
\* no output_path, it writes the cleaned table to a path other than the source
\* path, and the source file is still there with what it held.
\* Refuted by a source whose name holds no ".csv" (data/raw/test.CSV):
\* str.replace leaves the path as it is and to_csv writes over the source.
C29_Claimed_InputKept ==
    [][(HealStep /\ heal_log'.status = "ok" /\ heal_args.filepath.kind = "path"
            /\ ~heal_args.output_path.given) =>
           /\ heal_log'.log.output_path # heal_args.filepath.path
           /\ IsFile(disk', heal_args.filepath.path)
           /\ DataAt(disk', heal_args.filepath.path)
                  = DataAt(disk, heal_args.filepath.path)]_vars

\* heal_data on exports.csv/test.csv with no output_path succeeded and wrote
\* to another path.
C29_Witness ==
    /\ heal_log.status = "ok"
    /\ ~heal_args.output_path.given
    /\ heal_args.filepath.kind = "path"
    /\ heal_args.filepath.path = <<"exports", ".csv", "/", "test", ".csv">>
    /\ heal_log.log.output_path # heal_args.filepath.path
    /\ IsFile(disk, heal_args.filepath.path)

\* ---------------------------------------------------------------- C30
\* C30: when heal_data fails, on the load or on anything after it, it has
\* written no cleaned file and returns no log: the disk is as it was before
\* the call.
\* Refuted by output_path "out/" where no directory "out" exists: makedirs
\* creates the directory, to_csv then raises, and the directory stays.
C30_Claimed_FailureLeavesDisk ==
    [][(HealStep /\ heal_log' = Raised) => disk' = disk]_vars

\* heal_data failed after its load: the source was read and no file was
\* written.
C30_Witness ==
    /\ heal_log = Raised
    /\ heal_args.filepath.kind = "path"
    /\ IsFile(disk, heal_args.filepath.path)
    /\ Len(DataAt(disk, heal_args.filepath.path).cols) > 0
    /\ Cardinality(disk.files) = 1


\* ---------------------------------------------------------------- C24
\* The entry the streaming loop makes of a batch it obtained as batch n.
EntriesOf(n) ==
    {HistoryEntry(n, scan_batch(b.df, b.has_drift)) : b \in generate_live_batch(n - 1)}

\* C24: batches are processed one at a time and a stop takes effect only
\* between ticks: a step that counts a batch or appends to the history does
\* both, for one batch that was obtained and analysed, and leaves the feed
\* running; a step that leaves Running changes neither the counter nor the
\* history.
C24_WholeTicks ==
    [][/\ (live_feed_active /\ (batch_count' # batch_count
                                   \/ stream_history' # stream_history)) =>
              /\ live_feed_active'
              /\ batch_count' = batch_count + 1
              /\ stream_history' # <<>>
              /\ stream_history'[Len(stream_history')] \in EntriesOf(batch_count')
              /\ Len(stream_history') = IF Len(stream_history) < 50
                                        THEN Len(stream_history) + 1
                                        ELSE 50
       /\ (live_feed_active /\ ~live_feed_active') =>
              /\ batch_count' = batch_count
              /\ stream_history' = stream_history]_vars

\* Stop was pressed while the loop was running, after its second batch: both
\* batches are counted and both are in the history.
C24_Witness ==
    /\ operation_mode = "live"
    /\ ~live_feed_active
    /\ starts = 1
    /\ batch_count = 2
    /\ Len(stream_history) = 2
    /\ stream_history[2] \in EntriesOf(2)

\* ---------------------------------------------------------------- C26
\* C26: at every tick boundary stream_history holds the last
\* min(batch_count, 50) batches of the current run: as many entries, their
\* batch_num values consecutive and increasing, the newest equal to
\* batch_count.
C26_HistoryWindow ==
    LET n == Len(stream_history)
    IN  /\ n = IF batch_count < 50 THEN batch_count ELSE 50
        /\ \A k \in 1..n : stream_history[k].batch_num = batch_count - n + k

\* The second run of the session has processed more than 50 batches: the
\* history runs from batch_count - 49 to batch_count.
C26_Witness ==
    /\ starts = 2
    /\ live_feed_active
    /\ batch_count = 52
    /\ Len(stream_history) = 50
    /\ stream_history[1].batch_num = 3

\* ---------------------------------------------------------------- C27
\* C27: between a Start and the next, batch_count never exceeds 20, so the
\* history never holds more than 20 entries and never reaches the capacity at
\* which the oldest entry is dropped.
\* Refuted as C19 is: the loop entered again makes 20 more passes.
C27_Claimed_AtMostTwenty ==
    /\ batch_count <= 20
    /\ Len(stream_history) <= 20

\* A run that was left alone stopped by itself after its 20 batches.
C27_Witness ==
    /\ ~live_feed_active
    /\ starts = 1
    /\ batch_count = 20
    /\ Len(stream_history) = 20
    /\ stream_history[1].batch_num = 1


\* ---------------------------------------------------------------- C28
\* health_score < 0.7 and drift_score > 0.3 of a BatchResult.
LowHealth(r) == 10 * r.health_score.num < 7 * r.health_score.den
HighDrift(r) == 10 * r.drift_score.num > 3 * r.drift_score.den

\* C28: in every result of scan_batch's normal path drift_score > 0.3 implies
\* health_score < 0.7, so that alert = (has_drift_event or health_score < 0.7);
\* and whenever the producer set the drift flag on a batch, the result
\* returned for it has alert true.
\* Refuted as C12 and C21 are: a flagged batch without rows gets the except
\* result, whose alert is False.
C28_Claimed_AlertFollowsFlag ==
    batch_result # NoResult =>
        /\ Analysed =>
               /\ HighDrift(batch_result) => LowHealth(batch_result)
               /\ batch_result.alert
                      = (batch_result.has_drift_event \/ LowHealth(batch_result))
        /\ attrs_has_drift => (batch_result.status = "ok" /\ batch_result.alert)

\* A batch analysed on the normal path, its flag unset: more than 0.3 of its
\* columns have gaps, its health score is below 0.7 and it alerts.
C28_Witness ==
    /\ Analysed
    /\ ~attrs_has_drift
    /\ HighDrift(batch_result)
    /\ LowHealth(batch_result)
    /\ batch_result.alert
    /\ batch_result.anomaly_count = 0


\* ---------------------------------------------------------------- C25
\* The stored scan result has drift_score > 0.3.
StoredHigh == drift_result # NoResult /\ HighDrift(drift_result)

\* C25: the threshold 0.3 is applied alike everywhere.  Of a stored scan
\* result the auto-fix button is shown, the AI insight has severity HIGH or
\* CRITICAL and the report is classified INCIDENT exactly when its
\* drift_score > 0.3; a scan that returns a result logs the alert exactly when
\* the score of that result is > 0.3; and heal_data is called from the page
\* only when the stored result has drift_score > 0.3.
C25_OneThreshold ==
    /\ [](drift_result # NoResult =>
              /\ AutoFixShown(drift_result) = StoredHigh
              /\ InsightOf(drift_result).status = "ok" =>
                     (InsightOf(drift_result).severity \in {"HIGH", "CRITICAL"})
                         = StoredHigh
              /\ InsightOf(drift_result).status # "ok" => ~StoredHigh
              /\ (generate_executive_report(drift_result, NoResult).classification
                      = "INCIDENT") = StoredHigh)
    /\ [](report # NoResult =>
              (report.classification = "INCIDENT")
                  = (report.severity \in {"HIGH", "CRITICAL"}))
    /\ [][/\ presses'.scan # presses.scan =>
                 (alert_logs' # alert_logs)
                     = (Len(source.cols) > 0 /\ HighDrift(drift_result'))
          /\ presses'.scan = presses.scan => alert_logs' = alert_logs
          /\ presses'.fix # presses.fix => StoredHigh
          /\ report' # report =>
                 (report'.classification = "INCIDENT") = StoredHigh]_vars

\* A result with a drift score of exactly 0.3 is stored: no alert was logged
\* for it, and the report generated from it is classified MONITORING; before
\* it a result above 0.3 was scanned and healed.
C25_Witness ==
    /\ drift_result # NoResult
    /\ drift_result.drift_score = [num |-> 3, den |-> 10]
    /\ Len(alert_logs) = 1
    /\ presses = [scan |-> 2, fix |-> 1]
    /\ healing_result # NoResult
    /\ report # NoResult
    /\ report.classification = "MONITORING"
====
